---- MODULE Spec2Model ----
(***************************************************************************)
(* Model of tg-convert's file-identifier translation layer                 *)
(* (src/telegram_bot.py, class BotFileIdConverter) and of the handlers of  *)
(* VideoConverterBot that use it.                                          *)
(*                                                                         *)
(* A string is a sequence of one-character strings, a bytes object a       *)
(* sequence of numbers 0..255.  A Python int is unbounded, while a TLC     *)
(* integer has 32 bits, so a non-negative int is its little-endian         *)
(* base-256 digit sequence without trailing zero digits: 0 is << >>,       *)
(* 777 is <<9, 3>>.  Two ints are equal exactly when their digit           *)
(* sequences are.  file_type (0..7) and lengths are plain integers.        *)
(***************************************************************************)
EXTENDS Integers, Sequences, FiniteSets, TLC

VARIABLES
    file_id,    \* the identifier the caller passes to the converter
    last,       \* the most recent call: its operation and how it ended
    prev,       \* the call before it
    sinks,      \* what the most recent call wrote to each loguru sink
    first,      \* the first decode_bot_file_id call made on file_id
    auth,       \* the Telethon authorization: callbacks, chat, standard input
    doc         \* the document request handle_document worked on last

vars == <<file_id, last, prev, sinks, first, auth, doc>>

----------------------------------------------------------------------------
(* Bounds of the model.                                                    *)

\* Bytes a generated identifier carries beyond offset 32 (the end of an
\* 8-byte access hash).
MaxExtra == 2

----------------------------------------------------------------------------
(* base64.b64decode(s) with validate=False, as binascii.a2b_base64 does it *)

\* The standard alphabet: index i-1 is the 6-bit value of B64Alphabet[i].
B64Alphabet ==
    << "A","B","C","D","E","F","G","H","I","J","K","L","M","N","O","P",
       "Q","R","S","T","U","V","W","X","Y","Z","a","b","c","d","e","f",
       "g","h","i","j","k","l","m","n","o","p","q","r","s","t","u","v",
       "w","x","y","z","0","1","2","3","4","5","6","7","8","9","+","/" >>

BASE64_PAD == "="

\* Characters of the model that are not ASCII.
NonAscii == {"é"}

\* Every character an identifier of the model is written with.
Chars == {B64Alphabet[i] : i \in 1..64} \cup {BASE64_PAD, "!", " ", "-", "_"} \cup NonAscii

\* binascii's lookup table: the 6-bit value of c, or 64 for a character
\* outside the standard alphabet ('-' and '_' included).
table_a2b_base64 ==
    [c \in Chars |->
        IF \E i \in 1..64 : B64Alphabet[i] = c
        THEN (CHOOSE i \in 1..64 : B64Alphabet[i] = c) - 1
        ELSE 64]

\* One iteration of a2b_base64's loop on character ch in non-strict mode.
\* st = [quad_pos, leftchar, pads, out, done].
A2bStep(st, ch) ==
    IF ch = BASE64_PAD
    THEN \* a pad ends the input once it completes a quad; else it is ignored
         IF st.quad_pos >= 2 /\ st.quad_pos + st.pads + 1 >= 4
         THEN [st EXCEPT !.pads = @ + 1, !.done = TRUE]
         ELSE IF st.quad_pos >= 2 THEN [st EXCEPT !.pads = @ + 1] ELSE st
    ELSE LET this_ch == table_a2b_base64[ch] IN
         IF this_ch >= 64
         THEN st      \* not in the alphabet: skipped
         ELSE CASE st.quad_pos = 0 ->
                    [st EXCEPT !.quad_pos = 1, !.leftchar = this_ch, !.pads = 0]
                [] st.quad_pos = 1 ->
                    [st EXCEPT !.quad_pos = 2, !.pads = 0,
                               !.out = Append(@, (st.leftchar * 4 + (this_ch \div 16)) % 256),
                               !.leftchar = this_ch % 16]
                [] st.quad_pos = 2 ->
                    [st EXCEPT !.quad_pos = 3, !.pads = 0,
                               !.out = Append(@, (st.leftchar * 16 + (this_ch \div 4)) % 256),
                               !.leftchar = this_ch % 4]
                [] OTHER ->
                    [st EXCEPT !.quad_pos = 0, !.pads = 0,
                               !.out = Append(@, (st.leftchar * 64 + this_ch) % 256),
                               !.leftchar = 0]

RECURSIVE A2bLoop(_, _, _)
A2bLoop(s, i, st) ==
    IF i > Len(s) \/ st.done THEN st ELSE A2bLoop(s, i + 1, A2bStep(st, s[i]))

NoError == [type |-> "None"]
NoBytes == << >>

\* binascii.a2b_base64(s): the bytes, or binascii.Error when the data
\* characters do not end on a quad boundary.
a2b_base64(s) ==
    LET st == A2bLoop(s, 1, [quad_pos |-> 0, leftchar |-> 0, pads |-> 0,
                             out |-> << >>, done |-> FALSE])
    IN IF st.done \/ st.quad_pos = 0
       THEN [raised |-> FALSE, value |-> st.out, error |-> NoError]
       ELSE IF st.quad_pos = 1
            THEN [raised |-> TRUE, value |-> NoBytes,
                  error |-> [type |-> "binascii.Error",
                             msg |-> "number of data characters cannot be 1 more than a multiple of 4"]]
            ELSE [raised |-> TRUE, value |-> NoBytes,
                  error |-> [type |-> "binascii.Error", msg |-> "Incorrect padding"]]

\* base64.b64decode(s): a str is first encoded as ASCII (ValueError when it
\* cannot be), then handed to a2b_base64 without validation.
b64decode(s) ==
    IF \E i \in 1..Len(s) : s[i] \in NonAscii
    THEN [raised |-> TRUE, value |-> NoBytes,
          error |-> [type |-> "ValueError",
                     msg |-> "string argument should contain only ASCII characters"]]
    ELSE a2b_base64(s)

----------------------------------------------------------------------------
(* Python integers and struct                                              *)

\* int.from_bytes(b, 'little'): the value of the bytes b, least significant
\* first, as a digit sequence without trailing zeros.
RECURSIVE from_bytes_little(_)
from_bytes_little(b) ==
    IF b = << >> THEN << >>
    ELSE IF b[Len(b)] = 0 THEN from_bytes_little(SubSeq(b, 1, Len(b) - 1))
    ELSE b

\* struct.unpack('<I', b)[0] and struct.unpack('<Q', b)[0]: b has exactly 4
\* (8) bytes at every call of the decoder, as the length floor guarantees.
unpack_I(b) == from_bytes_little(b)
unpack_Q(b) == from_bytes_little(b)

Zero == << >>

\* n & 0x7 for an int n.
BitAnd7(n) == IF n = << >> THEN 0 ELSE n[1] % 8

\* Python's slice b[lo:hi] (0-based, hi exclusive, clipped to the length).
Slice(b, lo, hi) == SubSeq(b, lo + 1, IF hi < Len(b) THEN hi ELSE Len(b))

----------------------------------------------------------------------------
(* loguru                                                                  *)

\* loguru's severity numbers.
LevelNo == [DEBUG |-> 10, INFO |-> 20, WARNING |-> 30, ERROR |-> 40]

\* The three sinks the module installs after logger.remove().
Handlers ==
    { [name |-> "logs/bot.log",   level |-> "INFO"],
      [name |-> "logs/error.log", level |-> "ERROR"],
      [name |-> "console",        level |-> "INFO"] }

SinkNames == {h.name : h \in Handlers}

\* What each sink keeps of the records emitted, in order.
RECURSIVE Filter(_, _)
Filter(records, level) ==
    IF records = << >> THEN << >>
    ELSE LET rest == Filter(Tail(records), level) IN
         IF LevelNo[Head(records).level] >= LevelNo[level]
         THEN <<Head(records)>> \o rest ELSE rest

Deliver(records) ==
    [n \in SinkNames |->
        Filter(records, (CHOOSE h \in Handlers : h.name = n).level)]

----------------------------------------------------------------------------
(* BotFileIdConverter                                                      *)

NoValue == [none |-> TRUE]

\* A padding step that appends as many '=' as there are characters past the
\* last multiple of 4.
AddPaddingRemainder(s) ==
    LET missing_padding == Len(s) % 4 IN
    IF missing_padding # 0
    THEN s \o [i \in 1..missing_padding |-> BASE64_PAD]
    ELSE s

\* The padding step: '=' appended up to the next multiple of 4.
AddPadding(s) ==
    LET missing_padding == Len(s) % 4 IN
    IF missing_padding # 0
    THEN s \o [i \in 1..(4 - missing_padding) |-> BASE64_PAD]
    ELSE s

\* decode_bot_file_id's except clause: the error is logged at ERROR level
\* with the (padded) identifier, and re-raised as ValueError.
DecodeFailed(padded, e) ==
    [raised |-> TRUE,
     value  |-> NoValue,
     error  |-> [type |-> "ValueError", msg |-> "Invalid bot file_id format", e |-> e],
     logs   |-> << [level |-> "ERROR", msg |-> "Failed to decode bot file_id",
                    args |-> [file_id |-> padded, e |-> e]] >>,
     locals |-> [file_id |-> padded]]

\* A floor that lets a 19-byte buffer through.
TooShortBelow19(decoded) == Len(decoded) < 19

\* The length floor of a valid file_id.
TooShort(decoded) == Len(decoded) < 20

\* file_id_part1 and file_id_part2: two 8-byte parts, the second only when
\* the buffer holds all of it.
FileIdPart1(decoded) ==
    IF Len(decoded) >= 24 THEN unpack_Q(Slice(decoded, 8, 16))
    ELSE IF Len(decoded) >= 16 THEN unpack_Q(Slice(decoded, 8, 16)) ELSE Zero

\* A second part read from whatever bytes follow offset 16.
FileIdPart2Partial(decoded) ==
    IF Len(decoded) >= 24 THEN unpack_Q(Slice(decoded, 16, 24))
    ELSE from_bytes_little(Slice(decoded, 16, 24))

FileIdPart2(decoded) ==
    IF Len(decoded) >= 24 THEN unpack_Q(Slice(decoded, 16, 24)) ELSE Zero

\* An access hash read from everything that follows offset 24.
AccessHashWholeTail(decoded) ==
    IF Len(decoded) > 24 THEN from_bytes_little(Slice(decoded, 24, Len(decoded))) ELSE Zero

\* access_hash: what follows offset 24, at most 8 bytes of it.
AccessHash(decoded) ==
    LET access_hash_bytes ==
            IF Len(decoded) > 24 THEN Slice(decoded, 24, Len(decoded)) ELSE << >>
    IN IF Len(access_hash_bytes) >= 8 THEN unpack_Q(Slice(access_hash_bytes, 0, 8))
       ELSE IF Len(access_hash_bytes) > 0 THEN from_bytes_little(access_hash_bytes)
       ELSE Zero

\* file_type: the low three bits of the flags.
FileType(file_type_flags) == BitAnd7(file_type_flags)

\* The record decode_bot_file_id returns for at least 20 decoded bytes.
DecodeFields(decoded) ==
    LET file_type_flags == unpack_I(Slice(decoded, 0, 4))
        dc_id == unpack_I(Slice(decoded, 4, 8))
    IN [file_type |-> FileType(file_type_flags),
        file_type_flags |-> file_type_flags,
        dc_id |-> dc_id,
        file_id |-> FileIdPart1(decoded),
        file_id_2 |-> FileIdPart2(decoded),
        access_hash |-> AccessHash(decoded),
        raw_data |-> decoded]

\* decode_bot_file_id(file_id): the record, or ValueError; with the log
\* records it emits and the value of its local file_id at exit.
decode_bot_file_id(id) ==
    LET padded == AddPadding(id)
        dec == b64decode(padded)
    IN IF dec.raised THEN DecodeFailed(padded, dec.error)
       ELSE LET decoded == dec.value IN
            IF TooShort(decoded)
            THEN DecodeFailed(padded, [type |-> "ValueError", msg |-> "Invalid file_id length",
                                       len |-> Len(decoded)])
            ELSE LET rec == DecodeFields(decoded) IN
                 [raised |-> FALSE,
                  value  |-> rec,
                  error  |-> NoError,
                  logs   |-> << [level |-> "DEBUG", msg |-> "Decoded file_id",
                                 args |-> [type |-> rec.file_type, dc_id |-> rec.dc_id,
                                           access_hash |-> rec.access_hash]] >>,
                  locals |-> [file_id |-> padded]]

\* An except clause that raises a bare ValueError, without the cause.
ConvertFailedBare(logs, decoded, e) ==
    [raised |-> TRUE,
     value  |-> NoValue,
     error  |-> [type |-> "ValueError",
                 msg |-> "Cannot convert Bot API file_id to Telethon format",
                 e |-> [type |-> "ValueError", msg |-> "conversion failed",
                        e |-> NoError]],
     logs   |-> logs \o << [level |-> "ERROR",
                            msg |-> "Failed to convert file_id to Telethon location",
                            args |-> [e |-> e]] >>,
     locals |-> [decoded |-> decoded]]

\* convert_to_telethon_location's except clause.
ConvertFailed(logs, decoded, e) ==
    [raised |-> TRUE,
     value  |-> NoValue,
     error  |-> [type |-> "ValueError",
                 msg |-> "Cannot convert Bot API file_id to Telethon format", e |-> e],
     logs   |-> logs \o << [level |-> "ERROR",
                            msg |-> "Failed to convert file_id to Telethon location",
                            args |-> [e |-> e]] >>,
     locals |-> [decoded |-> decoded]]

\* The locator constructors of telethon.tl.types.
InputPhotoFileLocation(id, access_hash, file_reference) ==
    [kind |-> "InputPhotoFileLocation", id |-> id, access_hash |-> access_hash,
     file_reference |-> file_reference]

InputDocumentFileLocation(id, access_hash, file_reference) ==
    [kind |-> "InputDocumentFileLocation", id |-> id, access_hash |-> access_hash,
     file_reference |-> file_reference]

\* A dispatch that forgets document type 5.
DispatchWithout5(file_type) ==
    IF file_type = 1 THEN "photo"
    ELSE IF file_type \in {2, 3, 4} THEN "document"
    ELSE "unsupported"

\* The branch convert_to_telethon_location takes on a file type.
Dispatch(file_type) ==
    IF file_type = 1 THEN "photo"
    ELSE IF file_type \in {2, 3, 4, 5} THEN "document"
    ELSE "unsupported"

\* The locator each branch builds from the decoded record.
PhotoLocation(decoded) ==
    InputPhotoFileLocation(decoded.file_id, decoded.access_hash, << >>)

\* A document locator addressed by the second id part.
DocumentLocationPart2(decoded) ==
    InputDocumentFileLocation(decoded.file_id_2, decoded.access_hash, << >>)

DocumentLocation(decoded) ==
    InputDocumentFileLocation(decoded.file_id, decoded.access_hash, << >>)

Converted(logs, decoded, location, what) ==
    [raised |-> FALSE,
     value  |-> location,
     error  |-> NoError,
     logs   |-> logs \o << [level |-> "DEBUG", msg |-> what, args |-> [none |-> TRUE]] >>,
     locals |-> [decoded |-> decoded]]

\* A conversion that looks at the file type before the access hash.
SynthesizeTypeFirst(logs, decoded) ==
    LET file_type == decoded.file_type IN
    IF Dispatch(file_type) = "unsupported"
    THEN ConvertFailed(logs, decoded,
                       [type |-> "ValueError", msg |-> "Unsupported file type",
                        file_type |-> file_type])
    ELSE IF decoded.access_hash = Zero
    THEN ConvertFailed(logs, decoded,
                       [type |-> "ValueError", msg |-> "Invalid access_hash: cannot be zero"])
    ELSE IF Dispatch(file_type) = "photo"
    THEN Converted(logs, decoded, PhotoLocation(decoded),
                   "Converting photo file_id to InputPhotoFileLocation")
    ELSE Converted(logs, decoded, DocumentLocation(decoded),
                   "Converting document file_id to InputDocumentFileLocation")

\* The checks and the dispatch of convert_to_telethon_location on a decoded
\* record, after the logs the decoder emitted.
Synthesize(logs, decoded) ==
    LET file_type == decoded.file_type IN
    IF decoded.access_hash = Zero
    THEN ConvertFailed(logs, decoded,
                       [type |-> "ValueError", msg |-> "Invalid access_hash: cannot be zero"])
    ELSE IF Dispatch(file_type) = "photo"
    THEN Converted(logs, decoded, PhotoLocation(decoded),
                   "Converting photo file_id to InputPhotoFileLocation")
    ELSE IF Dispatch(file_type) = "document"
    THEN Converted(logs, decoded, DocumentLocation(decoded),
                   "Converting document file_id to InputDocumentFileLocation")
    ELSE ConvertFailed(logs, decoded,
                       [type |-> "ValueError", msg |-> "Unsupported file type",
                        file_type |-> file_type])

\* convert_to_telethon_location(file_id): the locator, or ValueError.
convert_to_telethon_location(id) ==
    LET d == decode_bot_file_id(id) IN
    IF d.raised
    THEN ConvertFailed(d.logs, NoValue, d.error)
    ELSE Synthesize(d.logs, d.value)

\* What file_type_names.get(file_type, f"Unknown ({file_type})") yields.
file_type_names ==
    [t \in 1..5 |->
        CASE t = 1 -> "Photo"
          [] t = 2 -> "Document (Sticker)"
          [] t = 3 -> "Document (Audio)"
          [] t = 4 -> "Document (Video)"
          [] OTHER -> "Document (Other)"]

FileTypeName(file_type) ==
    IF file_type \in DOMAIN file_type_names
    THEN file_type_names[file_type]
    ELSE CASE file_type = 0 -> "Unknown (0)"
           [] file_type = 6 -> "Unknown (6)"
           [] OTHER -> "Unknown (7)"

\* The report analyze_bot_file_id builds from what the decoder did.
Report(id, d) ==
    IF d.raised
    THEN [file_id |-> id, error |-> d.error, is_valid |-> FALSE]
    ELSE [file_id |-> id,
          file_type |-> d.value.file_type,
          file_type_name |-> FileTypeName(d.value.file_type),
          dc_id |-> d.value.dc_id,
          access_hash |-> d.value.access_hash,
          raw_length |-> Len(d.value.raw_data),
          is_valid |-> TRUE]

\* An analysis that holds an identifier valid only if it also converts.
AnalyzeThroughConvert(id) ==
    LET d == decode_bot_file_id(id)
        c == convert_to_telethon_location(id)
    IN [raised |-> FALSE,
        value  |-> Report(id, IF c.raised /\ ~d.raised
                              THEN [d EXCEPT !.raised = TRUE, !.error = c.error] ELSE d),
        error  |-> NoError,
        logs   |-> c.logs,
        locals |-> [decoded |-> d.value]]

\* analyze_bot_file_id(file_id): a report, whatever the decoder does.
analyze_bot_file_id(id) ==
    LET d == decode_bot_file_id(id) IN
    [raised |-> FALSE,
     value  |-> Report(id, d),
     error  |-> NoError,
     logs   |-> d.logs,
     locals |-> [decoded |-> d.value]]

\* debug_file_id_command on a message that answers a document carrying id
\* (has_document) or answers none: the reply sent to the chat.  The texts
\* stand for the closing line of each reply, which the source writes in
\* Russian.
debug_file_id_command(has_document, id) ==
    IF ~has_document
    THEN [raised |-> FALSE,
          value  |-> [text |-> "reply to a message with a file", analysis |-> NoValue],
          error  |-> NoError, logs |-> << >>, locals |-> NoValue]
    ELSE LET a == analyze_bot_file_id(id)
             analysis == a.value
         IN [raised |-> FALSE,
             value  |-> [text |-> IF analysis.is_valid
                                  THEN "File ID is valid for conversion to Telethon"
                                  ELSE "File ID cannot be converted to Telethon",
                         analysis |-> analysis],
             error  |-> NoError, logs |-> a.logs, locals |-> NoValue]

----------------------------------------------------------------------------
(* The identifiers the model is run on.  An identifier is built from a    *)
(* byte layout, base64-encoded, and then written the ways a caller may     *)
(* hand it over: padded, unpadded, in the URL-safe alphabet, or damaged.   *)

\* base64.b64encode, used only to write down inputs.
RECURSIVE B64Encode(_)
B64Encode(b) ==
    IF Len(b) = 0 THEN << >>
    ELSE IF Len(b) = 1
    THEN << B64Alphabet[(b[1] \div 4) + 1], B64Alphabet[(b[1] % 4) * 16 + 1],
            BASE64_PAD, BASE64_PAD >>
    ELSE IF Len(b) = 2
    THEN << B64Alphabet[(b[1] \div 4) + 1],
            B64Alphabet[(b[1] % 4) * 16 + (b[2] \div 16) + 1],
            B64Alphabet[(b[2] % 16) * 4 + 1], BASE64_PAD >>
    ELSE << B64Alphabet[(b[1] \div 4) + 1],
            B64Alphabet[(b[1] % 4) * 16 + (b[2] \div 16) + 1],
            B64Alphabet[(b[2] % 16) * 4 + (b[3] \div 64) + 1],
            B64Alphabet[(b[3] % 64) + 1] >> \o B64Encode(SubSeq(b, 4, Len(b)))

\* The bytes past offset 32.
ExtraBytes == [i \in 1..MaxExtra |-> 200 + i]

Layout(flags, dc, id1, id2, hash) == flags \o dc \o id1 \o id2 \o hash \o ExtraBytes

Dc2 == <<2, 0, 0, 0>>
Id1000 == <<232, 3, 0, 0, 0, 0, 0, 0>>
Id42 == <<42, 0, 0, 0, 0, 0, 0, 1>>
Hash777 == <<9, 3, 0, 0, 0, 0, 0, 0>>

\* Every file type, alone and under flag bits above the low three.
FlagBytes ==
    {<<t, 0, 0, 0>> : t \in 0..7}
        \cup {<<12, 0, 0, 0>>, <<251, 255, 0, 0>>, <<1, 0, 0, 128>>, <<8, 0, 0, 0>>}

\* Access-hash regions: an ordinary one, zero, one whose only set bit is in
\* the eighth byte, and one with every bit set.
HashBytes ==
    { Hash777,
      <<0, 0, 0, 0, 0, 0, 0, 0>>,
      <<0, 0, 0, 0, 0, 0, 0, 128>>,
      <<255, 255, 255, 255, 255, 255, 255, 255>> }

\* Decoded lengths: below the floor, and every length from the floor on.
Lengths == {0, 1, 10, 19} \cup 20..(32 + MaxExtra)

Templates ==
    {SubSeq(Layout(f, Dc2, Id1000, Id42, h), 1, 32) : f \in FlagBytes, h \in HashBytes}
        \cup {SubSeq(Layout(f, Dc2, Id1000, Id42, Hash777), 1, 24) : f \in FlagBytes}
        \cup {SubSeq(Layout(f, Dc2, Id1000, Id42, h), 1, n) :
                 f \in {<<4, 0, 0, 0>>, <<1, 0, 0, 128>>}, h \in HashBytes, n \in Lengths}

\* s without up to k trailing pad characters.
RECURSIVE StripPadding(_, _)
StripPadding(s, k) ==
    IF k = 0 \/ s = << >> \/ s[Len(s)] # BASE64_PAD THEN s
    ELSE StripPadding(SubSeq(s, 1, Len(s) - 1), k - 1)

\* s in the URL-safe alphabet: '+' written '-', '/' written '_'.
ToUrlSafe(s) ==
    [i \in 1..Len(s) |-> IF s[i] = "+" THEN "-" ELSE IF s[i] = "/" THEN "_" ELSE s[i]]

InsertAt(s, pos, c) == SubSeq(s, 1, pos) \o <<c>> \o SubSeq(s, pos + 1, Len(s))

ReplaceAt(s, pos, c) == [s EXCEPT ![pos] = c]

Encoded == {B64Encode(t) : t \in Templates}

Unpadded == {StripPadding(e, k) : e \in Encoded, k \in 1..2}

\* Three pad characters where none is needed, and one missing of them.
OverPadded ==
    {StripPadding(B64Encode(SubSeq(Layout(f, Dc2, Id1000, Id42, Hash777), 1, 33)), 2)
         \o SubSeq(<<BASE64_PAD, BASE64_PAD, BASE64_PAD>>, 1, k) :
        f \in {<<4, 0, 0, 0>>}, k \in 0..3}

Stray == {"!", " ", "-", "_", "é"}

Damaged ==
    LET base == {B64Encode(SubSeq(Layout(<<4, 0, 0, 0>>, Dc2, Id1000, Id42, Hash777), 1, n)) :
                    n \in {24, 32}}
    IN {InsertAt(e, pos, c) : e \in base, pos \in {0, 5, 32}, c \in Stray}
         \cup {ReplaceAt(e, pos, c) : e \in base, pos \in {6, 32}, c \in Stray}

Garbage == { <<"n","o","t","-","b","a","s","e","6","4","!","!">> }

Identifiers ==
    Encoded \cup Unpadded \cup {ToUrlSafe(x) : x \in Encoded \cup Unpadded}
        \cup OverPadded \cup Damaged \cup Garbage

----------------------------------------------------------------------------
(* The state machine: a caller holding one identifier calls the            *)
(* converter's operations on it, in any order and any number of times.     *)

NoCall ==
    [op |-> "none", arg |-> << >>,
     out |-> [raised |-> FALSE, value |-> NoValue, error |-> NoError,
              logs |-> << >>, locals |-> NoValue]]

\* The bot's handlers at rest: no authorization and no document request.
NoAuth == [pc |-> "off"]
NoDoc == [pc |-> "off"]

Init ==
    /\ file_id \in Identifiers
    /\ last = NoCall
    /\ prev = NoCall
    /\ sinks = Deliver(<< >>)
    /\ first = NoCall
    /\ auth = NoAuth
    /\ doc = NoDoc

\* A decoder sharing one result cache with the converter: after a
\* conversion of the identifier it hands back the cached locator.
DecodeSharedCache ==
    LET fresh == decode_bot_file_id(file_id)
        out == IF last.op = "convert" /\ last.arg = file_id /\ ~last.out.raised
               THEN [fresh EXCEPT !.value = last.out.value] ELSE fresh
    IN /\ last' = [op |-> "decode", arg |-> file_id, out |-> out]
       /\ prev' = last
       /\ sinks' = Deliver(out.logs)
       /\ first' = IF first.op = "none" THEN last' ELSE first
       /\ UNCHANGED <<file_id, auth, doc>>

\* A call of decode_bot_file_id(file_id).
Decode ==
    LET out == decode_bot_file_id(file_id) IN
    /\ last' = [op |-> "decode", arg |-> file_id, out |-> out]
    /\ prev' = last
    /\ sinks' = Deliver(out.logs)
    /\ first' = IF first.op = "none" THEN last' ELSE first
    /\ UNCHANGED <<file_id, auth, doc>>

\* A call of convert_to_telethon_location(file_id).
Convert ==
    LET out == convert_to_telethon_location(file_id) IN
    /\ last' = [op |-> "convert", arg |-> file_id, out |-> out]
    /\ prev' = last
    /\ sinks' = Deliver(out.logs)
    /\ UNCHANGED <<file_id, first, auth, doc>>

\* A call of analyze_bot_file_id(file_id).
Analyze ==
    LET out == analyze_bot_file_id(file_id) IN
    /\ last' = [op |-> "analyze", arg |-> file_id, out |-> out]
    /\ prev' = last
    /\ sinks' = Deliver(out.logs)
    /\ UNCHANGED <<file_id, first, auth, doc>>

\* The /debug_file_id command, sent in answer to a document carrying
\* file_id or in answer to nothing.
DebugFileId ==
    \E has_document \in BOOLEAN :
        LET out == debug_file_id_command(has_document, file_id) IN
        /\ last' = [op |-> "debug", arg |-> file_id, out |-> out]
        /\ prev' = last
        /\ sinks' = Deliver(out.logs)
        /\ UNCHANGED <<file_id, first, auth, doc>>

Next == Decode \/ Convert \/ Analyze \/ DebugFileId

Spec == Init /\ [][Next]_vars

(* The same caller moving on from one identifier to another, over          *)
(* identifiers that differ in one field at a time.                         *)

Dc4 == <<4, 0, 0, 0>>
Id1001 == <<233, 3, 0, 0, 0, 0, 0, 0>>
Id43 == <<43, 0, 0, 0, 0, 0, 0, 1>>

PairLayouts ==
    { Layout(<<2, 0, 0, 0>>, Dc2, Id1000, Id42, Hash777),
      Layout(<<12, 0, 0, 0>>, Dc4, Id1000, Id43, Hash777),
      Layout(<<5, 0, 0, 0>>, Dc2, Id1001, Id42, Hash777),
      Layout(<<3, 0, 0, 0>>, Dc2, Id1000, Id42, Id1000),
      Layout(<<1, 0, 0, 0>>, Dc2, Id1000, Id42, Hash777),
      Layout(<<1, 0, 0, 128>>, Dc4, Id1000, Id43, Hash777),
      Layout(<<0, 0, 0, 0>>, Dc2, Id1000, Id42, Hash777),
      Layout(<<4, 0, 0, 0>>, Dc2, Id1000, Id42, <<0, 0, 0, 0, 0, 0, 0, 0>>) }

PairIdentifiers == {B64Encode(SubSeq(b, 1, 32)) : b \in PairLayouts}

InitPair ==
    /\ file_id \in PairIdentifiers
    /\ last = NoCall
    /\ prev = NoCall
    /\ sinks = Deliver(<< >>)
    /\ first = NoCall
    /\ auth = NoAuth
    /\ doc = NoDoc

NextFile ==
    /\ file_id' \in PairIdentifiers
    /\ first' = NoCall
    /\ UNCHANGED <<last, prev, sinks, auth, doc>>

NextPair == Decode \/ Convert \/ NextFile

SpecPair == InitPair /\ [][NextPair]_vars

----------------------------------------------------------------------------
(* The Telethon authorization of VideoConverterBot: the "init_telethon"    *)
(* button, the callbacks handed to TelegramClient.start, the text handler  *)
(* that takes the confirmation code from the chat, and the test script of  *)
(* the input helper.                                                       *)

\* Seconds the code callback waits for the code (asyncio.wait_for timeout).
CodeTimeout == 300

\* Seconds that pass in one step of the clock.
TickSeconds == 100

\* The residue kept of the number of reads the password loop has made.
MaxReads == 2

\* A Python str value; None is NoValue.
Str(s) == [str |-> s]

Digits == {"0", "1", "2", "3", "4", "5", "6", "7", "8", "9"}

RECURSIVE lstrip(_)
lstrip(t) == IF t # << >> /\ Head(t) = " " THEN lstrip(Tail(t)) ELSE t

RECURSIVE rstrip(_)
rstrip(t) ==
    IF t # << >> /\ t[Len(t)] = " " THEN rstrip(SubSeq(t, 1, Len(t) - 1)) ELSE t

\* str.strip()
strip(t) == rstrip(lstrip(t))

\* str.isdigit()
isdigit(t) == t # << >> /\ \A i \in 1..Len(t) : t[i] \in Digits

\* The texts a user sends to the chat.
Texts ==
    { <<"1", "2", "3", "4", "5">>, <<" ", "4", "3", "2", "1", " ">>,
      <<"1", "2", "3">>, <<"1", "2", "a", "4">> }

\* The methods of class VideoConverterBot.
VideoConverterBotMethods ==
    {"__init__", "_setup_handlers", "start_command", "help_command",
     "debug_file_id_command", "button_callback", "_handle_telethon_init",
     "handle_document", "handle_text", "_is_video_file", "_download_file",
     "_convert_video", "_send_converted_video", "_cleanup_temp_files",
     "_init_telethon", "_telegram_code_callback", "_wait_for_code_in_chat",
     "_handle_telegram_code", "_telegram_password_callback",
     "_download_file_telethon", "_download_file_telethon_alternative", "run"}

\* hasattr(self, name): a method of the class, or an attribute set so far.
hasattr(self, name) == name \in VideoConverterBotMethods \cup self.attrs

\* The bot as __init__ leaves it, with standard input of the given kind
\* and the Telethon configuration present in the environment or not.
NewBot(stdin, use_telethon) ==
    [pc |-> "on",
     USE_TELETHON |-> use_telethon,
     attrs |-> {"bot", "telethon_client"},
     connected |-> FALSE,
     _pending_code |-> NoValue,
     _code_event |-> "none",
     tasks |-> {},
     code_callback |-> [pc |-> "none"],
     init |-> "none",
     screen |-> "none",
     elapsed |-> 0,
     stdin |-> stdin,
     password_callback |-> [pc |-> "none", reads |-> 0],
     test |-> [pc |-> "none"]]

\* loop.run_until_complete(future) on a loop that is running: asyncio
\* refuses to run a loop inside itself.
run_until_complete(running) ==
    IF running
    THEN [raised |-> TRUE,
          error |-> [type |-> "RuntimeError", msg |-> "This event loop is already running"]]
    ELSE [raised |-> FALSE, error |-> NoError]

\* _telegram_code_callback, called by TelegramClient.start from the
\* coroutine _init_telethon awaits: the event loop is running.
\* The bot after the call, and what the call did.
telegram_code_callback(self) ==
    LET armed == [self EXCEPT !.attrs = @ \cup {"_pending_code", "_code_event"},
                              !._pending_code = NoValue,
                              !._code_event = "clear",
                              !.elapsed = 0,
                              !.tasks = IF hasattr(self, "_current_telethon_chat")
                                        THEN @ \cup {"send_message: code prompt"}
                                        ELSE @]
        wait == run_until_complete(TRUE)
    IN IF wait.raised
       THEN [self |-> [armed EXCEPT !.code_callback =
                                       [pc |-> "raised", error |-> wait.error]],
             raised |-> TRUE,
             error |-> wait.error,
             logs |-> << [level |-> "ERROR", msg |-> "Error waiting for code",
                          args |-> [e |-> wait.error]] >>]
       ELSE [self |-> [armed EXCEPT !.code_callback = [pc |-> "waiting"]],
             raised |-> FALSE,
             error |-> NoError,
             logs |-> << >>]

\* _init_telethon on a client that is not connected.  start tells what
\* TelegramClient.start meets: a session that is authorized already, a
\* failure to request the code, or the request of a confirmation code.
init_telethon(self, start) ==
    CASE ~self.USE_TELETHON -> [self |-> self, logs |-> << >>]
      [] self.connected ->
           [self |-> self,
            logs |-> << [level |-> "INFO", msg |-> "Telethon client already connected",
                         args |-> NoValue] >>]
      [] start = "authorized" ->
           [self |-> [self EXCEPT !.connected = TRUE, !.init = "True"],
            logs |-> << [level |-> "INFO", msg |-> "Telethon client started successfully",
                         args |-> NoValue] >>]
      [] start = "error" ->
           [self |-> [self EXCEPT !.init = "False"],
            logs |-> << [level |-> "ERROR", msg |-> "Failed to start Telethon client",
                         args |-> [e |-> [type |-> "FloodWaitError", msg |-> "flood"]]],
                        [level |-> "ERROR",
                         msg |-> "Too many requests. Please wait before trying again.",
                         args |-> NoValue] >>]
      [] OTHER ->
           LET cb == telegram_code_callback(self) IN
           IF cb.raised
           THEN [self |-> [cb.self EXCEPT !.init = "False"],
                 logs |-> cb.logs \o
                          << [level |-> "ERROR", msg |-> "Failed to start Telethon client",
                              args |-> [e |-> cb.error]] >>]
           ELSE [self |-> [cb.self EXCEPT !.init = "waiting"], logs |-> cb.logs]

\* The event loop is held by the password callback while it reads.
LoopFree == auth.pc = "on" /\ auth.password_callback.pc # "reading"

\* _handle_telethon_init: the "init_telethon" button is pressed.
HandleTelethonInit ==
    /\ LoopFree
    /\ \E start \in {"authorized", "error", "code"} :
        LET use_telethon == auth.USE_TELETHON
            marked == [auth EXCEPT !.attrs = @ \cup {"_current_telethon_chat"}]
            r == init_telethon(marked, start)
        IN IF ~use_telethon
           THEN /\ auth' = [auth EXCEPT !.screen = "Telethon is not configured"]
                /\ sinks' = Deliver(<< >>)
           ELSE IF auth.connected
           THEN /\ auth' = [auth EXCEPT !.screen = "Telethon is loaded already"]
                /\ sinks' = Deliver(<< >>)
           ELSE /\ auth' = [r.self EXCEPT !.screen =
                               IF r.self.init = "True"
                               THEN "Telethon initialized"
                               ELSE "Telethon could not be initialized"]
                /\ sinks' = Deliver(r.logs)
    /\ UNCHANGED <<file_id, last, prev, first, doc>>

\* The event loop runs the task the code callback created: the prompt to
\* send the code reaches the chat.
SendCodePrompt ==
    /\ LoopFree
    /\ "send_message: code prompt" \in auth.tasks
    /\ auth' = [auth EXCEPT !.tasks = @ \ {"send_message: code prompt"},
                            !.screen = "please send the confirmation code to this chat"]
    /\ sinks' = Deliver(<< >>)
    /\ UNCHANGED <<file_id, last, prev, first, doc>>

\* _handle_telegram_code(message)
handle_telegram_code(self, text) ==
    IF ~hasattr(self, "_pending_code") \/ self._pending_code # NoValue
    THEN self
    ELSE LET code == strip(text) IN
         IF code # << >> /\ isdigit(code) /\ Len(code) >= 4
         THEN [self EXCEPT !._pending_code = Str(code),
                           !._code_event = IF hasattr(self, "_code_event")
                                           THEN "set" ELSE @,
                           !.screen = "code accepted, continuing authorization"]
         ELSE [self EXCEPT !.screen = "the code must be digits only (at least 4)"]

\* handle_text: a text message arrives in the chat.
HandleText ==
    /\ LoopFree
    /\ \E text \in Texts :
        auth' = IF hasattr(auth, "_pending_code") /\ auth._pending_code = NoValue
                THEN handle_telegram_code(auth, text)
                ELSE [auth EXCEPT !.screen = "help"]
    /\ sinks' = Deliver(<< >>)
    /\ UNCHANGED <<file_id, last, prev, first, doc>>

\* Time passes after a code was requested.
Tick ==
    /\ auth.pc = "on"
    /\ auth.code_callback.pc # "none"
    /\ auth.elapsed <= CodeTimeout
    /\ auth' = [auth EXCEPT !.elapsed = @ + TickSeconds]
    /\ UNCHANGED <<file_id, last, prev, sinks, first, doc>>

\* What one input("...") call does, by the kind of standard input.
InputOutcomes(stdin) ==
    CASE stdin = "closed" -> {[raised |-> TRUE, error |-> [type |-> "EOFError",
                                      msg |-> "EOF when reading a line"]]}
      [] stdin = "none" -> {[raised |-> TRUE, error |-> [type |-> "RuntimeError",
                                      msg |-> "input(): lost sys.stdin"]]}
      [] OTHER -> {[raised |-> FALSE, value |-> <<"h", "u", "n", "t", "e", "r">>],
                   [raised |-> FALSE, value |-> << >>],
                   [raised |-> FALSE, value |-> <<" ", " ">>],
                   [raised |-> TRUE, error |-> [type |-> "KeyboardInterrupt", msg |-> ""]],
                   [raised |-> TRUE, error |-> [type |-> "EOFError",
                                      msg |-> "EOF when reading a line"]]}

\* TelegramClient.start asks for the two-factor password:
\* _telegram_password_callback prints its header and enters the loop.
PasswordCallback ==
    /\ auth.pc = "on"
    /\ auth.password_callback.pc = "none"
    /\ auth' = [auth EXCEPT !.password_callback = [pc |-> "reading", reads |-> 0]]
    /\ sinks' = Deliver(<< >>)
    /\ UNCHANGED <<file_id, last, prev, first, doc>>

\* One turn of the loop of _telegram_password_callback.
PasswordRead ==
    /\ auth.pc = "on"
    /\ auth.password_callback.pc = "reading"
    /\ \E in \in InputOutcomes(auth.stdin) :
        LET again == [pc |-> "reading",
                      reads |-> (auth.password_callback.reads + 1) % MaxReads]
        IN IF in.raised
           THEN /\ auth' = [auth EXCEPT !.password_callback =
                               IF in.error.type = "KeyboardInterrupt"
                               THEN [pc |-> "raised", error |-> in.error]
                               ELSE again]
                /\ sinks' = Deliver(<< >>)
           ELSE IF strip(in.value) # << >>
           THEN /\ auth' = [auth EXCEPT !.password_callback =
                               [pc |-> "returned", value |-> Str(strip(in.value))]]
                /\ sinks' = Deliver(<< [level |-> "INFO", msg |-> "Password entered",
                                        args |-> NoValue] >>)
           ELSE /\ auth' = [auth EXCEPT !.password_callback = again]
                /\ sinks' = Deliver(<< >>)
    /\ UNCHANGED <<file_id, last, prev, first, doc>>

\* test_safe_input of test_eof_fix.py, run on a fresh VideoConverterBot
\* with assert statements compiled in or out (python -O).
test_safe_input(bot, assertions) ==
    LET found == hasattr(bot, "_safe_input")
        missing == [type |-> "AttributeError",
                    msg |-> "'VideoConverterBot' object has no attribute '_safe_input'"]
    IN IF ~found
       THEN IF assertions
            THEN [pc |-> "raised", found |-> found,
                  failure |-> [type |-> "AssertionError", msg |-> "_safe_input not found"]]
            ELSE [pc |-> "returned", found |-> found, failure |-> missing]
       ELSE [pc |-> "called", found |-> found, failure |-> NoError]

\* The test script is run.
TestSafeInput ==
    /\ auth.pc = "on"
    /\ auth.test.pc = "none"
    /\ \E assertions \in BOOLEAN :
        auth' = [auth EXCEPT !.test = test_safe_input(NewBot("none", auth.USE_TELETHON), assertions)]
    /\ UNCHANGED <<file_id, last, prev, sinks, first, doc>>

\* No identifier is at hand while the bot authorizes.
NoFile == << >>

InitAuth ==
    /\ file_id = NoFile
    /\ last = NoCall
    /\ prev = NoCall
    /\ sinks = Deliver(<< >>)
    /\ first = NoCall
    /\ auth \in {NewBot(stdin, use_telethon) :
                    stdin \in {"tty", "closed", "none"}, use_telethon \in BOOLEAN}
    /\ doc = NoDoc

NextAuth ==
    \/ HandleTelethonInit
    \/ SendCodePrompt
    \/ HandleText
    \/ Tick
    \/ PasswordCallback
    \/ PasswordRead
    \/ TestSafeInput

SpecAuth == InitAuth /\ [][NextAuth]_vars

\* The interpreter keeps running the loop of the password callback.
SpecAuthFair == SpecAuth /\ WF_vars(PasswordRead)

----------------------------------------------------------------------------
(* handle_document: a document arrives, is downloaded through the Bot API  *)
(* or through Telethon, converted in a Docker container and sent back.     *)

MB == 1024 * 1024

\* The largest file the Bot API lets the bot download, and send.
MAX_FILE_SIZE == 50 * MB
MAX_SEND_SIZE == 50 * MB

\* Seconds the conversion may take (the default of the environment variable).
CONVERSION_TIMEOUT == 300

\* The phrases of str(e) that handle_document looks for.
Phrases(e) == IF "phrases" \in DOMAIN e THEN e.phrases ELSE {}

\* Exception(f"msg ... {cause} ..."): the text of each cause is part of
\* the text of the new exception.
Exception(msg, own, causes) ==
    [type |-> "Exception", msg |-> msg,
     phrases |-> own \cup UNION {Phrases(causes[i]) : i \in 1..Len(causes)},
     e |-> causes]

\* telebot's ApiTelegramException for a request the Bot API refuses.
ApiTelegramException(description, own) ==
    [type |-> "ApiTelegramException", msg |-> description,
     phrases |-> {"bad request"} \cup own, e |-> << >>]

\* The course of one handler call: what it did, in order, what it logged,
\* the per-request directory and the bot.
NewRun(self) ==
    [events |-> << >>, logs |-> << >>, dir |-> "absent", created |-> FALSE,
     files |-> {}, self |-> self]

Ev(run, e) == [run EXCEPT !.events = Append(@, e)]

Log(run, level, msg) ==
    [run EXCEPT !.logs = Append(@, [level |-> level, msg |-> msg, args |-> NoValue])]

Raise(run, e) == [run |-> run, raised |-> TRUE, error |-> e, value |-> NoValue]

Return(run, v) == [run |-> run, raised |-> FALSE, error |-> NoError, value |-> v]

\* bot.reply_to and bot.edit_message_text, delivered or refused.
reply_to(run, text, ok) ==
    IF ok THEN Return(Ev(run, [op |-> "reply_to", text |-> text]), NoValue)
    ELSE Raise(Ev(run, [op |-> "reply_to refused", text |-> text]),
               ApiTelegramException("Bad Request: replied message not found", {}))

edit_message_text(run, text, ok) ==
    IF ok THEN Return(Ev(run, [op |-> "edit_message_text", text |-> text]), NoValue)
    ELSE Raise(Ev(run, [op |-> "edit_message_text refused", text |-> text]),
               ApiTelegramException("Bad Request: message to edit not found", {}))

\* str.lower() of the suffixes that occur.
Lower(suffix) ==
    CASE suffix = ".MP4" -> ".mp4"
      [] OTHER -> suffix

video_extensions == {".mp4", ".avi", ".mov", ".mkv", ".wmv", ".flv", ".webm", ".m4v"}

\* _is_video_file(filename)
is_video_file(filename) ==
    IF filename = NoValue THEN FALSE ELSE Lower(filename.suffix) \in video_extensions

Logged(run, logs) == [run EXCEPT !.logs = @ \o logs]

Wrote(run, file) == [run EXCEPT !.files = @ \cup {file}]

\* The except clause of download_file_with_telethon: every failure, of the
\* conversion or of the request, leaves as a plain Exception.
TelethonFailed(run, e) ==
    Raise(Log(run, "ERROR", "Failed to download file with Telethon"),
          Exception("Telethon download failed", {}, << e >>))

\* The GetFileRequest for the location the conversion gave, if it gave one.
RequestFile(run, location, client) ==
    IF location.raised
    THEN TelethonFailed(Logged(run, location.logs), location.error)
    ELSE IF client = "ok"
    THEN Return(Log(Wrote(Ev(Logged(run, location.logs),
                             [op |-> "GetFileRequest", location |-> location.value,
                              result |-> client]), "input"),
                    "INFO", "Successfully downloaded file via Telethon"),
                "input")
    ELSE TelethonFailed(Ev(Logged(run, location.logs),
                           [op |-> "GetFileRequest", location |-> location.value,
                            result |-> client]),
                        [type |-> client, msg |-> client, phrases |-> {}, e |-> << >>])

\* BotFileIdConverter.download_file_with_telethon(client, bot_file_id, output_path)
download_file_with_telethon(run, bot_file_id, client) ==
    RequestFile(run, convert_to_telethon_location(bot_file_id), client)

\* _download_file_telethon_alternative: the search of the message history.
download_file_telethon_alternative(run, alt) ==
    IF alt = "found"
    THEN Return(Log(Wrote(Ev(run, [op |-> "iter_messages", found |-> TRUE]), "input"),
                    "INFO", "Found matching file in message history"), NoValue)
    ELSE Raise(Log(Ev(run, [op |-> "iter_messages", found |-> FALSE]),
                   "ERROR", "Alternative download method failed"),
               Exception("File not found in recent message history", {}, << >>))

\* The end of the generic except clause of _download_file_telethon.
AlternativeDone(a, e) ==
    IF a.raised
    THEN Raise(Log(a.run, "ERROR", "Alternative download method also failed"),
               Exception("All Telethon download methods failed", {}, << e, a.error >>))
    ELSE Return(Log(a.run, "INFO", "Successfully downloaded large file via Telethon"),
                "input")

\* The except clauses of _download_file_telethon, chosen by the type of
\* what download_file_with_telethon raised.
TelethonDownloadFailed(run, e, alt) ==
    CASE e.type = "FilePartTooBigError" ->
           Raise(run, Exception("File is too big even for Telethon (over 2GB)",
                                {"file is too big"}, << >>))
      [] e.type = "FloodWaitError" ->
           Raise(run, Exception("Rate limited by Telegram, try again in N seconds",
                                {}, << >>))
      [] OTHER ->
           AlternativeDone(
               download_file_telethon_alternative(
                   Log(Log(run, "ERROR", "Telethon download failed"),
                       "INFO", "Trying alternative download method..."), alt),
               e)

\* The call of _init_telethon from _download_file_telethon has returned.
Reconnected(run, init) == [run EXCEPT !.self = init.self, !.logs = @ \o init.logs]

\* _download_file_telethon reconnects a client that is not connected.
Reconnect(run, start) ==
    IF run.self.connected THEN run
    ELSE Reconnected(Log(run, "WARNING",
                         "Telethon client not connected, attempting to reconnect..."),
                     init_telethon(run.self, start))

\* The try statement of _download_file_telethon, after the download call.
Fetched(d, alt) ==
    IF d.raised
    THEN TelethonDownloadFailed(d.run, d.error, alt)
    ELSE Return(Log(d.run, "INFO", "Successfully downloaded large file via Telethon"),
                "input")

\* _download_file_telethon once the client was given its chance to connect.
Fetch(run, document, env) ==
    IF ~run.self.connected
    THEN Raise(run, Exception("Failed to initialize Telethon client", {}, << >>))
    ELSE Fetched(download_file_with_telethon(
                     Log(run, "INFO", "Downloading large file via Telethon"),
                     document.file_id, env.client),
                 env.alt)

\* _download_file_telethon(document, tmp_dir)
download_file_telethon(run, document, env) ==
    IF ~run.self.USE_TELETHON
    THEN Raise(run, Exception("Telethon client not available", {}, << >>))
    ELSE Fetch(Reconnect(run, env.start), document, env)

\* _download_file(document, tmp_dir): the download through the Bot API.
download_file(run, document, botdl) ==
    LET run1 == Ev(run, [op |-> "get_file", file_size |-> document.file_size]) IN
    CASE botdl = "file is too big" ->
           Raise(run1, ApiTelegramException("Bad Request: file is too big",
                                            {"file is too big"}))
      [] botdl = "http error" ->
           Raise(Log(run1, "INFO", "Starting download"),
                 Exception("Download failed", {},
                           << Exception("Failed to download file: HTTP 404", {}, << >>) >>))
      [] botdl = "incomplete" ->
           IF document.file_size > 0
           THEN Raise(Log([run1 EXCEPT !.files = @ \cup {"input"}], "INFO",
                          "Starting download"),
                      Exception("Download incomplete", {}, << >>))
           ELSE Return(Log(Log([run1 EXCEPT !.files = @ \cup {"input"}], "INFO",
                               "Starting download"),
                           "INFO", "Successfully downloaded file"), "input")
      [] OTHER ->
           Return(Log(Log([run1 EXCEPT !.files = @ \cup {"input"}], "INFO",
                          "Starting download"),
                      "INFO", "Successfully downloaded file"), "input")

\* What the Docker container does: it cannot be started, or it runs for
\* so many seconds, ends with a return code and leaves an output file of
\* some size, or none (size 0).  A run beyond the timeout is killed: it has
\* no return code to read, and may have written a part of the output.
Conversions ==
    {[kind |-> "not started"]} \cup
    [kind : {"ran"}, duration : {CONVERSION_TIMEOUT + 1}, returncode : {0},
     output : {0, MAX_SEND_SIZE}] \cup
    [kind : {"ran"}, duration : {CONVERSION_TIMEOUT}, returncode : {1},
     output : {0}] \cup
    [kind : {"ran"}, duration : {1, CONVERSION_TIMEOUT}, returncode : {0},
     output : {0, MAX_SEND_SIZE, MAX_SEND_SIZE + 1}]

\* _convert_video(input_path, tmp_dir); an output of size 0 is no file.
convert_video(run, conv) ==
    LET run1 == Log(run, "INFO", "Running Docker command")
        failed(r, e) == Raise(Log(r, "ERROR", "Docker conversion error"), e)
    IN IF conv.kind = "not started"
       THEN failed(Ev(run1, [op |-> "create_subprocess_exec", started |-> FALSE]),
                   [type |-> "FileNotFoundError", msg |-> "docker", phrases |-> {},
                    e |-> << >>])
       ELSE LET run2 == Ev(run1, [op |-> "create_subprocess_exec", started |-> TRUE])
                written == IF conv.output > 0
                           THEN [run2 EXCEPT !.files = @ \cup {"output"}] ELSE run2
            IN IF conv.duration > CONVERSION_TIMEOUT
               THEN failed(Ev(Ev(Ev(written, [op |-> "TimeoutError",
                                              after |-> CONVERSION_TIMEOUT]),
                                    [op |-> "process.kill"]),
                                 [op |-> "process.wait"]),
                           Exception("the conversion took too long", {}, << >>))
               ELSE LET run3 == Ev(written, [op |-> "process.communicate",
                                             seconds |-> conv.duration,
                                             returncode |-> conv.returncode])
                        run4 == Ev(run3, [op |-> "exists",
                                          result |-> "output" \in run3.files])
                    IN IF conv.returncode # 0
                       THEN failed(run3, Exception("Docker command failed", {}, << >>))
                       ELSE IF "output" \notin run3.files
                       THEN failed(run4, Exception("Output file was not created",
                                                   {}, << >>))
                       ELSE Return(Log(run4, "INFO", "Video converted successfully"),
                                   conv.output)

\* _send_converted_video(message, video_path, processing_msg)
send_converted_video(run, size, send) ==
    LET refused(r, what) ==
            LET r1 == Log(Ev(r, [op |-> what]), "ERROR", "Error sending video")
            IN reply_to(r1, "error while sending the video", send # "nothing accepted")
    IN IF send = "delete refused"
       THEN refused(run, "delete_message refused")
       ELSE LET run1 == Ev(run, [op |-> "delete_message"]) IN
            IF send = "ok"
            THEN Return(Log(Ev(run1, [op |-> "send_video", size |-> size]),
                            "INFO", "Sent converted video"), NoValue)
            ELSE refused(run1, "send_video refused")

\* _cleanup_temp_files(tmp_dir)
cleanup_temp_files(run, rmtree) ==
    IF run.dir # "present"
    THEN run
    ELSE IF rmtree
    THEN Log([Ev(run, [op |-> "rmtree", ok |-> TRUE])
                EXCEPT !.dir = "absent", !.files = {}],
             "INFO", "Cleaned up temp directory")
    ELSE Log(Ev(run, [op |-> "rmtree", ok |-> FALSE]),
             "ERROR", "Error cleaning up temp files")

\* A handler whose cleanup stands after the try statement instead of in
\* its finally clause: an exception that leaves the handler skips it.
CleanupAfterTry(handled, rmtree) ==
    IF handled.raised THEN handled
    ELSE [handled EXCEPT !.run = cleanup_temp_files(handled.run, rmtree)]

\* The finally clause of handle_document.
Finally(handled, rmtree) ==
    [handled EXCEPT !.run = cleanup_temp_files(handled.run, rmtree)]

\* The text handle_document shows for an exception.
ErrorText(e) ==
    CASE "file is too big" \in Phrases(e) -> "the file exceeds the Bot API limit"
      [] "bad request" \in Phrases(e) -> "bad request to the Telegram API"
      [] OTHER -> "an error occurred while processing the video"

\* user_tmp_dir.mkdir(exist_ok=True)
mkdir(run, ok) ==
    IF ok
    THEN Return([Ev(run, [op |-> "mkdir"]) EXCEPT !.dir = "present", !.created = TRUE],
                NoValue)
    ELSE Raise(Ev(run, [op |-> "mkdir failed"]),
               [type |-> "OSError", msg |-> "No space left on device",
                phrases |-> {}, e |-> << >>])

\* What handle_document gets from _download_file: the path or the exception.
BotApiTried(d) ==
    [d EXCEPT !.run = Ev(@, [op |-> "_download_file", raised |-> d.raised,
                             error |-> d.error])]

\* The Bot API download that follows the notice of the fallback.
Notified(n, document, env) ==
    IF n.raised THEN n ELSE BotApiTried(download_file(n.run, document, env.botdl))

\* An except clause that turns to the Bot API whatever the size of the file.
FallBackAlways(run, document, e, env) ==
    Notified(edit_message_text(run,
                               "Telethon could not load the file, using Bot API",
                               env.edit),
             document, env)

\* The except clause around the Telethon download in handle_document.
FallBack(run, document, e, env) ==
    IF document.file_size <= MAX_FILE_SIZE
    THEN Notified(edit_message_text(run,
                                    "Telethon could not load the file, using Bot API",
                                    env.edit),
                  document, env)
    ELSE Raise(run, Exception(
                 "the file is too large for Bot API and Telethon could not load it",
                 {}, << e >>))

\* What handle_document does with the outcome of _download_file_telethon.
TelethonTried(t, document, env) ==
    IF ~t.raised
    THEN Return(Ev(t.run, [op |-> "_download_file_telethon", raised |-> FALSE,
                           error |-> NoError]),
                t.value)
    ELSE FallBack(Log(Ev(t.run, [op |-> "_download_file_telethon", raised |-> TRUE,
                                 error |-> t.error]),
                      "WARNING", "Telethon download failed, falling back to Bot API"),
                  document, t.error, env)

\* The download step of handle_document.
Download(run, document, use_telethon, env) ==
    IF use_telethon
    THEN TelethonTried(download_file_telethon(run, document, env), document, env)
    ELSE BotApiTried(download_file(run, document, env.botdl))

\* output_path.stat().st_size
stat(run, size) == Ev(run, [op |-> "stat", st_size |-> size])

\* A handler that sends the converted video whatever its size.
VideoConvertedUnchecked(c, env) ==
    IF c.raised THEN c
    ELSE send_converted_video(c.run, c.value, env.send)

\* The try statement of handle_document after the conversion.
VideoConverted(c, env) ==
    IF c.raised THEN c
    ELSE IF c.value > MAX_SEND_SIZE
    THEN edit_message_text(stat(c.run, c.value), "converted, but too large to send",
                           env.large)
    ELSE send_converted_video(stat(c.run, c.value), c.value, env.send)

\* The try statement of handle_document after the download.
Downloaded(d, env) ==
    IF d.raised THEN d ELSE VideoConverted(convert_video(d.run, env.conv), env)

\* The try statement of handle_document after mkdir.
DirMade(m, document, use_telethon, env) ==
    IF m.raised THEN m
    ELSE Downloaded(Download(m.run, document, use_telethon, env), env)

\* The body of the try statement of handle_document.
TryBody(run, document, use_telethon, env) ==
    DirMade(mkdir(run, env.mkdir), document, use_telethon, env)

\* The except clause of handle_document.
Except(body, edit) ==
    IF body.raised
    THEN edit_message_text(Log(body.run, "ERROR", "Error processing video"),
                           ErrorText(body.error), edit)
    ELSE body

\* handle_document from the try statement on.
Processing(b, document, use_telethon, env) ==
    IF b.raised THEN b
    ELSE Finally(Except(TryBody(b.run, document, use_telethon, env), env.edit),
                 env.rmtree)

\* handle_document from the notice that processing has begun.
Announced(a, document, use_telethon, env) ==
    IF a.raised THEN a
    ELSE Processing(reply_to(a.run, "processing the video", env.reply),
                    document, use_telethon, env)

\* handle_document(message): the document of the message and what the
\* chat, Telegram, Docker and the file system do during the call.
handle_document(self, document, env) ==
    IF ~is_video_file(document.file_name)
    THEN reply_to(NewRun(self), "please send a video file", env.reply)
    ELSE IF document.file_size > MAX_FILE_SIZE /\ ~self.USE_TELETHON
    THEN reply_to(NewRun(self), "the file is too large to process", env.reply)
    ELSE IF self.USE_TELETHON /\ document.file_size > MAX_FILE_SIZE
    THEN Announced(reply_to(NewRun(self), "large file, using Telethon", env.reply),
                   document, TRUE, env)
    ELSE Announced(Return(NewRun(self), NoValue), document, FALSE, env)

\* The file identifiers of the documents sent to the bot: a video with an
\* access hash and one without.
DocIdentifiers ==
    {B64Encode(SubSeq(Layout(<<4, 0, 0, 0>>, Dc2, Id1000, Id42, h), 1, 32)) :
        h \in {Hash777, <<0, 0, 0, 0, 0, 0, 0, 0>>}}

\* message.document; a file_size of None counts as 0 (file_size or 0).
Documents ==
    [file_name : {[stem |-> "clip", suffix |-> ".MP4"],
                  [stem |-> "notes", suffix |-> ".txt"], NoValue},
     file_size : {0, MAX_FILE_SIZE, MAX_FILE_SIZE + 1},
     file_id : DocIdentifiers]

\* S if the handler comes to read the input, one value of S if it does not.
Read(read, S) == IF read THEN S ELSE {CHOOSE x \in S : TRUE}

\* What the surroundings can do during a call of handle_document on the
\* document.  Only the inputs the call comes to read vary: the conversion
\* after a download that succeeds, the sending after a conversion that
\* yields a video small enough, the editing of the message to the too-large
\* text after an output too large and to an error text after a failure, the
\* removal after the directory was made.
Envs(self, document) ==
    LET video == is_video_file(document.file_name)
        big == document.file_size > MAX_FILE_SIZE
        proceed == video /\ (~big \/ self.USE_TELETHON)
        telethon == proceed /\ big
        quiet == CHOOSE c \in Conversions : c.kind = "not started"
        replies == [reply : BOOLEAN, mkdir : {TRUE}, start : {"authorized"},
                    client : {"ok"}, alt : {"found"}, botdl : {"ok"},
                    conv : {quiet}, send : {"ok"}, large : {TRUE}, edit : {TRUE},
                    rmtree : {TRUE}]
        with_mkdir == UNION {IF proceed /\ e.reply
                             THEN {[e EXCEPT !.mkdir = x] : x \in BOOLEAN}
                             ELSE {e} : e \in replies}
        with_start == UNION {IF telethon /\ e.reply /\ e.mkdir /\ ~self.connected
                             THEN {[e EXCEPT !.start = x] :
                                      x \in {"authorized", "error", "code"}}
                             ELSE {e} : e \in with_mkdir}
        with_client == UNION {IF telethon /\ e.reply /\ e.mkdir
                                   /\ e.start = "authorized"
                              THEN {[e EXCEPT !.client = x, !.alt = y] :
                                       x \in {"ok", "FloodWaitError",
                                              "FilePartTooBigError", "RPCError"},
                                       y \in {"found", "not found"}}
                              ELSE {e} : e \in with_start}
        first_inputs == UNION {IF proceed /\ ~telethon /\ e.reply /\ e.mkdir
                               THEN {[e EXCEPT !.botdl = x] :
                                        x \in {"ok", "file is too big", "http error",
                                               "incomplete"}}
                               ELSE {e} : e \in with_client}
        enters(e) == proceed /\ e.reply
        downloads(e) ==
            enters(e) /\ e.mkdir /\ ~Download(NewRun(self), document, telethon, e).raised
        converts(e) ==
            ~convert_video(NewRun(self), e.conv).raised /\ e.conv.output <= MAX_SEND_SIZE
        with_conv == UNION {IF downloads(e)
                            THEN {[e EXCEPT !.conv = c] : c \in Conversions}
                            ELSE {e} : e \in first_inputs}
        with_send == UNION {IF e.conv # quiet /\ converts(e)
                            THEN {[e EXCEPT !.send = x] :
                                     x \in {"ok", "delete refused", "send refused",
                                            "nothing accepted"}}
                            ELSE {[e EXCEPT !.send = "unread"]} : e \in with_conv}
        large(e) ==
            /\ e.conv # quiet
            /\ ~convert_video(NewRun(self), e.conv).raised
            /\ e.conv.output > MAX_SEND_SIZE
        with_large == UNION {IF large(e)
                             THEN {[e EXCEPT !.large = x] : x \in BOOLEAN}
                             ELSE {e} : e \in with_send}
        fails(e) ==
            enters(e) /\ TryBody(NewRun(self), document, telethon, e).raised
        with_edit == UNION {IF fails(e)
                            THEN {[e EXCEPT !.edit = x] : x \in BOOLEAN}
                            ELSE {e} : e \in with_large}
    IN UNION {IF enters(e) /\ e.mkdir
              THEN {[e EXCEPT !.rmtree = x] : x \in BOOLEAN}
              ELSE {e} : e \in with_edit}

\* No document has arrived yet.
DocIdle == [pc |-> "idle"]

\* A message with a document arrives: the call that handles it has logged
\* nothing yet.
ReceiveDocument ==
    /\ doc.pc # "received"
    /\ \E document \in Documents :
        /\ doc' = [pc |-> "received", document |-> document]
        /\ file_id' = document.file_id
    /\ sinks' = Deliver(<< >>)
    /\ UNCHANGED <<last, prev, first, auth>>

\* handle_document runs on the message.
HandleDocument ==
    /\ doc.pc = "received"
    /\ \E env \in Envs(auth, doc.document) :
      \E out \in {handle_document(auth, doc.document, env)} :
        /\ doc' = [pc |-> IF out.raised THEN "raised" ELSE "returned",
                   document |-> doc.document,
                   events |-> out.run.events,
                   error |-> out.error,
                   dir |-> out.run.dir,
                   created |-> out.run.created,
                   files |-> out.run.files]
        /\ auth' = out.run.self
        /\ sinks' = Deliver(out.run.logs)
    /\ UNCHANGED <<file_id, last, prev, first>>

InitDoc ==
    /\ file_id = NoFile
    /\ last = NoCall
    /\ prev = NoCall
    /\ sinks = Deliver(<< >>)
    /\ first = NoCall
    /\ auth \in {[NewBot("closed", use_telethon) EXCEPT !.connected = connected] :
                    use_telethon \in BOOLEAN, connected \in BOOLEAN}
    /\ doc = DocIdle

NextDoc == ReceiveDocument \/ HandleDocument

SpecDoc == InitDoc /\ [][NextDoc]_vars

----------------------------------------------------------------------------
(* Properties                                                              *)

\* The bytes base64 yields for the identifier of the last call, padded.
LastDecoded == b64decode(AddPadding(last.arg))

\* The record the last conversion decoded, when its decoding succeeded.
LastConvertDecoded == last.op = "convert" /\ last.out.locals.decoded # NoValue

\* C1: an identifier whose decoded length is below 20 (the empty one
\* included) makes decode_bot_file_id fail with the too-short error that
\* carries the decoded length, and no record is returned.
C1_LengthFloor ==
    (last.op = "decode" /\ ~LastDecoded.raised /\ Len(LastDecoded.value) < 20)
        => /\ last.out.raised
           /\ last.out.value = NoValue
           /\ last.out.error.type = "ValueError"
           /\ last.out.error.e.msg = "Invalid file_id length"
           /\ last.out.error.e.len = Len(LastDecoded.value)

C1_Witness ==
    /\ last.op = "decode"
    /\ ~LastDecoded.raised
    /\ Len(LastDecoded.value) = 19
    /\ last.out.raised
    /\ last.out.error.e.len = 19

\* C2: a decoded record with access_hash 0 makes convert_to_telethon_location
\* fail with the invalid-access-hash error for every file type, also outside
\* 1..5; a locator that is returned has a nonzero access_hash.
C2_ZeroHashRejected ==
    /\ (LastConvertDecoded /\ last.out.locals.decoded.access_hash = Zero)
          => /\ last.out.raised
             /\ last.out.value = NoValue
             /\ last.out.error.e.msg = "Invalid access_hash: cannot be zero"
    /\ (last.op = "convert" /\ ~last.out.raised) => last.out.value.access_hash # Zero

C2_Witness ==
    /\ LastConvertDecoded
    /\ last.out.locals.decoded.access_hash = Zero
    /\ last.out.locals.decoded.file_type \notin 1..5
    /\ Len(last.out.locals.decoded.raw_data) >= 32
    /\ last.out.raised
    /\ last.out.error.e.msg = "Invalid access_hash: cannot be zero"

\* C3: with a nonzero access_hash, file_type 1 gives the photo locator,
\* file_type 2..5 the document locator, and every other file_type the
\* unsupported-file-type error carrying the file_type.
C3_TypeDispatch ==
    (LastConvertDecoded /\ last.out.locals.decoded.access_hash # Zero)
        => LET file_type == last.out.locals.decoded.file_type IN
           /\ file_type = 1
                => ~last.out.raised /\ last.out.value.kind = "InputPhotoFileLocation"
           /\ file_type \in {2, 3, 4, 5}
                => ~last.out.raised /\ last.out.value.kind = "InputDocumentFileLocation"
           /\ file_type \in {0, 6, 7}
                => /\ last.out.raised
                   /\ last.out.value = NoValue
                   /\ last.out.error.e.msg = "Unsupported file type"
                   /\ last.out.error.e.file_type = file_type

C3_Witness ==
    /\ LastConvertDecoded
    /\ last.out.locals.decoded.access_hash # Zero
    /\ last.out.locals.decoded.file_type = 5
    /\ ~last.out.raised
    /\ last.out.value.kind = "InputDocumentFileLocation"

\* The characters of the URL-safe alphabet.
UrlSafeChars == ({B64Alphabet[i] : i \in 1..64} \ {"+", "/"}) \cup {"-", "_"}

\* base64.urlsafe_b64decode: '-' read as '+', '_' as '/', then b64decode.
UrlSafeB64Decode(s) ==
    b64decode([i \in 1..Len(s) |->
                 IF s[i] = "-" THEN "+" ELSE IF s[i] = "_" THEN "/" ELSE s[i]])

\* s is URL-safe base64: URL-safe characters, then pad characters only.
IsUrlSafe(s) ==
    \E n \in 0..Len(s) :
        /\ \A i \in 1..n : s[i] \in UrlSafeChars
        /\ \A i \in (n + 1)..Len(s) : s[i] = BASE64_PAD

\* s is canonical standard base64: whole quads of alphabet characters, the
\* last one closed by the pad characters it needs.
IsCanonical(s) ==
    /\ Len(s) % 4 = 0
    /\ \E n \in 0..Len(s) :
        /\ Len(s) - n <= 2
        /\ \A i \in 1..n : table_a2b_base64[s[i]] < 64
        /\ \A i \in (n + 1)..Len(s) : s[i] = BASE64_PAD

\* The number the bytes b spell, least significant byte first.
LEValue(b) ==
    LET nz == {i \in 1..Len(b) : b[i] # 0} IN
    IF nz = {} THEN << >> ELSE SubSeq(b, 1, CHOOSE i \in nz : \A j \in nz : j <= i)

\* C4: an identifier with a character that is in neither base64 alphabet
\* and is no pad character makes decode_bot_file_id fail with the
\* invalid-encoding error; no record comes from skipping the character.
C4_InvalidCharacterRejected ==
    (last.op = "decode"
        /\ \E i \in 1..Len(last.arg) :
              last.arg[i] \notin UrlSafeChars \cup {"+", "/", BASE64_PAD})
        => /\ last.out.raised
           /\ last.out.value = NoValue
           /\ last.out.error.e.msg # "Invalid file_id length"

\* C5: for an identifier in the URL-safe alphabet, the raw bytes of
\* decode_bot_file_id are the URL-safe base64 decoding of the padded
\* identifier ('-' is 62 and '_' is 63).
C5_UrlSafeDecoded ==
    (last.op = "decode" /\ IsUrlSafe(last.arg))
        => LET ref == UrlSafeB64Decode(AddPadding(last.arg)) IN
           (~ref.raised /\ Len(ref.value) >= 20)
               => ~last.out.raised /\ last.out.value.raw_data = ref.value

\* C6: the padding step appends 4 - (len mod 4) pad characters when len mod
\* 4 is not 0 and none otherwise, and an identifier that is a canonical
\* valid identifier p without 1, 2 or 3 of its trailing pad characters
\* decodes to the record of p.
C6_PaddingTolerance ==
    last.op = "decode"
        => /\ last.out.locals.file_id =
                last.arg \o [i \in 1..((4 - (Len(last.arg) % 4)) % 4) |-> BASE64_PAD]
           /\ \A k \in 1..3 :
                LET p == last.arg \o [i \in 1..k |-> BASE64_PAD] IN
                (IsCanonical(p) /\ ~decode_bot_file_id(p).raised)
                    => /\ ~last.out.raised
                       /\ last.out.value = decode_bot_file_id(p).value

C6_Witness ==
    /\ last.op = "decode"
    /\ Len(last.arg) % 4 = 2
    /\ IsCanonical(last.arg \o <<BASE64_PAD, BASE64_PAD>>)
    /\ ~last.out.raised
    /\ last.out.locals.file_id = last.arg \o <<BASE64_PAD, BASE64_PAD>>
    /\ last.out.value = decode_bot_file_id(last.arg \o <<BASE64_PAD, BASE64_PAD>>).value

\* C7: the access hash comes from the bytes at offset 24 on: the first 8 of
\* them when there are at least 8 (later bytes do not matter), all of them
\* when there are 1 to 7, and it is 0 when there is none.
C7_AccessHashRegion ==
    (last.op = "decode" /\ ~last.out.raised)
        => LET raw == last.out.value.raw_data
               region == SubSeq(raw, 25, Len(raw))
               access_hash == last.out.value.access_hash
           IN /\ raw = LastDecoded.value
              /\ Len(region) >= 8 => access_hash = LEValue(SubSeq(region, 1, 8))
              /\ Len(region) \in 1..7 => access_hash = LEValue(region)
              /\ Len(region) = 0 => access_hash = Zero

C7_Witness ==
    /\ last.op = "decode"
    /\ ~last.out.raised
    /\ Len(last.out.value.raw_data) > 32
    /\ last.out.value.raw_data[33] # 0
    /\ last.out.value.access_hash = <<9, 3>>

\* C8: of decoded bytes b, file_type_flags is all of b[0:4), file_type its
\* low three bits, dc_id is b[4:8), the primary id b[8:16), and the
\* secondary id b[16:24) when b has 24 bytes and 0 when it has 20..23.
C8_FieldLayout ==
    (last.op = "decode" /\ ~last.out.raised)
        => LET b == LastDecoded.value
               r == last.out.value
           IN /\ Len(b) >= 20
              /\ r.raw_data = b
              /\ r.file_type_flags = LEValue(SubSeq(b, 1, 4))
              /\ r.file_type = b[1] % 8
              /\ r.dc_id = LEValue(SubSeq(b, 5, 8))
              /\ r.file_id = LEValue(SubSeq(b, 9, 16))
              /\ r.file_id_2 = IF Len(b) >= 24 THEN LEValue(SubSeq(b, 17, 24)) ELSE Zero

C8_Witness ==
    /\ last.op = "decode"
    /\ ~last.out.raised
    /\ Len(last.out.value.raw_data) = 23
    /\ last.out.value.file_type_flags = <<1, 0, 0, 128>>
    /\ last.out.value.file_type = 1
    /\ last.out.value.file_id = <<232, 3>>
    /\ last.out.value.file_id_2 = Zero

\* A conversion that returned a locator.
Located(call) == call.op = "convert" /\ ~call.out.raised

\* C9: a locator carries the decoded primary id and access hash and an
\* empty file_reference; two conversions whose records agree on the
\* primary id and the access hash and take the same branch (both file
\* types in 2..5, or both 1) return the same locator, whatever dc_id, the
\* secondary id and the higher flag bits are.
C9_LocatorFields ==
    /\ Located(last)
          => /\ last.out.value.id = last.out.locals.decoded.file_id
             /\ last.out.value.access_hash = last.out.locals.decoded.access_hash
             /\ last.out.value.file_reference = << >>
             /\ last.out.locals.decoded = decode_bot_file_id(last.arg).value
    /\ (Located(last) /\ Located(prev))
          => LET d1 == last.out.locals.decoded
                 d2 == prev.out.locals.decoded
             IN (/\ d1.file_id = d2.file_id
                 /\ d1.access_hash = d2.access_hash
                 /\ \/ d1.file_type \in 2..5 /\ d2.file_type \in 2..5
                    \/ d1.file_type = 1 /\ d2.file_type = 1)
                    => last.out.value = prev.out.value

C9_Witness ==
    /\ Located(last)
    /\ Located(prev)
    /\ last.out.locals.decoded.file_type = 2
    /\ prev.out.locals.decoded.file_type_flags = <<12>>
    /\ last.out.locals.decoded.dc_id # prev.out.locals.decoded.dc_id
    /\ last.out.locals.decoded.file_id_2 # prev.out.locals.decoded.file_id_2
    /\ last.out.value = prev.out.value
    /\ last.out.value = InputDocumentFileLocation(<<232, 3>>, <<9, 3>>, << >>)

\* C10: no record written to a sink carries an identifier (one that is not
\* the empty string), whether the call succeeds or fails; a decode that
\* returns a record logs one DEBUG record of file_type, dc_id and
\* access_hash, which reaches no sink.
C10_IdentifierNotLogged ==
    /\ \A n \in SinkNames : \A i \in 1..Len(sinks[n]) :
           "file_id" \in DOMAIN sinks[n][i].args => sinks[n][i].args.file_id = << >>
    /\ (last.op = "decode" /\ ~last.out.raised)
          => /\ Len(last.out.logs) = 1
             /\ last.out.logs[1].level = "DEBUG"
             /\ DOMAIN last.out.logs[1].args = {"type", "dc_id", "access_hash"}
             /\ \A n \in SinkNames : sinks[n] = << >>


\* The converter's own log lines: a call that wrote one ran the synthesis.
SynthesisLogged(logs) ==
    \E i \in 1..Len(logs) :
        logs[i].msg \in {"Converting photo file_id to InputPhotoFileLocation",
                         "Converting document file_id to InputDocumentFileLocation",
                         "Failed to convert file_id to Telethon location"}

\* Claim C11: analyze_bot_file_id returns a report for every identifier and
\* never raises; the report is valid exactly when decode_bot_file_id, called
\* on the same identifier, succeeds, and then carries the record's file
\* type, datacenter, access hash and raw length; otherwise it carries the
\* decoder's error.  The analysis never runs the locator synthesis.
C11_AnalysisFollowsDecode ==
    /\ last.op = "analyze" =>
         /\ ~last.out.raised
         /\ last.out.value.file_id = last.arg
         /\ last.out.value.is_valid \in BOOLEAN
         /\ ~SynthesisLogged(last.out.logs)
    /\ (last.op = "analyze" /\ prev.op = "decode" /\ prev.arg = last.arg) =>
         /\ last.out.value.is_valid = ~prev.out.raised
         /\ ~prev.out.raised =>
              /\ last.out.value.file_type = prev.out.value.file_type
              /\ last.out.value.dc_id = prev.out.value.dc_id
              /\ last.out.value.access_hash = prev.out.value.access_hash
              /\ last.out.value.raw_length = Len(prev.out.value.raw_data)
         /\ prev.out.raised => last.out.value.error = prev.out.error

\* An identifier with a zero access hash is decoded and then analysed: the
\* report is valid although the identifier cannot be converted.
C11_Witness ==
    /\ last.op = "analyze"
    /\ prev.op = "decode"
    /\ prev.arg = last.arg
    /\ last.out.value.is_valid
    /\ last.out.value.access_hash = Zero
    /\ last.out.value.raw_length >= 20

\* Claim C12: when decode_bot_file_id fails on an identifier,
\* convert_to_telethon_location fails on it with a ValueError that carries
\* the decoder's failure, from which invalid encoding and short data can be
\* told apart; every failure of either operation is a ValueError, and a
\* failed call yields no locator.
C12_DecodeFailurePropagates ==
    /\ (last.op = "convert" /\ prev.op = "decode" /\ prev.arg = last.arg
          /\ prev.out.raised) =>
         /\ last.out.raised
         /\ last.out.error.e = prev.out.error
         /\ last.out.error.e.e.type \in {"binascii.Error", "ValueError"}
    /\ (last.op \in {"decode", "convert"} /\ last.out.raised) =>
         /\ last.out.error.type = "ValueError"
         /\ last.out.value = NoValue
    /\ (last.op \in {"decode", "convert"} /\ ~last.out.raised) =>
         last.out.error = NoError

\* A short identifier and a badly padded one each fail in the decoder and
\* then in the converter.
C12_Witness ==
    /\ last.op = "convert"
    /\ prev.op = "decode"
    /\ prev.arg = last.arg
    /\ prev.out.raised
    /\ last.out.raised
    /\ last.out.error.e = prev.out.error

\* Claim C13: when /debug_file_id reports an identifier as valid for
\* conversion, convert_to_telethon_location succeeds on it; when it reports
\* that the identifier cannot be converted, the conversion fails.
C13_DebugVerdictMatchesConvert ==
    (last.op = "convert" /\ prev.op = "debug" /\ prev.arg = last.arg
       /\ prev.out.value.analysis # NoValue) =>
        /\ prev.out.value.text = "File ID is valid for conversion to Telethon"
             => ~last.out.raised
        /\ prev.out.value.text = "File ID cannot be converted to Telethon"
             => last.out.raised

C15_SafeInputProvided ==
    (auth.pc = "on" /\ auth.test.pc # "none") =>
        /\ hasattr(auth, "_safe_input")
        /\ auth.test.found
        /\ auth.test.failure = NoError

\* Claim C18: a valid confirmation code (digits only, at least 4 characters)
\* that the chat accepts within the 5-minute window reaches the
\* authorization: while the chat shows the code as accepted within the
\* window, _telegram_code_callback is still waiting for it or has returned
\* exactly that code.
C18_AcceptedCodeReturned ==
    (auth.pc = "on"
       /\ auth.screen = "code accepted, continuing authorization"
       /\ auth.elapsed <= CodeTimeout) =>
        \/ auth.code_callback.pc = "waiting"
        \/ /\ auth.code_callback.pc = "returned"
           /\ auth.code_callback.value = auth._pending_code

\* Claim C19: _telegram_password_callback terminates on every behaviour of
\* standard input: once it reads from a closed or missing standard input,
\* where every read fails, it eventually returns or raises.
C19_PasswordCallbackTerminates ==
    (auth.pc = "on"
       /\ auth.password_callback.pc = "reading"
       /\ auth.stdin \in {"closed", "none"})
    ~> (auth.password_callback.pc \in {"returned", "raised"})


\* handle_document has come to its end, by return or by an exception.
DocDone == doc.pc \in {"returned", "raised"}

\* Some step of the call was the operation op.
DocDid(op) == \E i \in 1..Len(doc.events) : doc.events[i].op = op

\* Claim C16: when the Telethon download of a document fails,
\* handle_document falls back to the Bot API: it tells the user that the
\* Bot API is used and then asks the Bot API for the same file.
C16_FallsBackToBotApi ==
    DocDone =>
        \A i \in 1..Len(doc.events) :
            (doc.events[i].op = "_download_file_telethon" /\ doc.events[i].raised) =>
                \E j, k \in (i + 1)..Len(doc.events) :
                    /\ j < k
                    /\ doc.events[j].op = "edit_message_text"
                    /\ doc.events[j].text = "Telethon could not load the file, using Bot API"
                    /\ doc.events[k].op = "get_file"

\* Claim C17: when the Telethon request fails with a flood-wait or a
\* file-part-too-big error, _download_file_telethon fails with the message
\* kept for that error and does not search the message history; the search
\* is made only after other failures.
C17_DedicatedFailuresSkipAlternative ==
    DocDone =>
        \A i \in 1..Len(doc.events) :
            (doc.events[i].op = "_download_file_telethon"
               /\ \E j \in 1..i : doc.events[j].op = "GetFileRequest"
                                    /\ doc.events[j].result \in
                                         {"FloodWaitError", "FilePartTooBigError"}) =>
                /\ ~DocDid("iter_messages")
                /\ doc.events[i].raised
                /\ doc.events[i].error.msg \in
                     {"File is too big even for Telethon (over 2GB)",
                      "Rate limited by Telegram, try again in N seconds"}

\* Claim C20, as stated: every handle_document call that creates its
\* temporary directory has removed it when it ends, on every exit path.
C20_TempDirRemoved ==
    (DocDone /\ doc.created) => doc.dir = "absent"

\* Claim C20, amended: a handle_document call that creates its temporary
\* directory ends, on every exit path, with an attempt to remove it, made
\* after every other step; the directory is gone exactly when shutil.rmtree
\* succeeds, and a failed removal is written to the error log and leaves
\* the directory behind.
C20_TempDirCleanupAttempted ==
    (DocDone /\ doc.created) =>
        LET final == doc.events[Len(doc.events)] IN
        /\ final.op = "rmtree"
        /\ Cardinality({i \in 1..Len(doc.events) : doc.events[i].op = "rmtree"}) = 1
        /\ (doc.dir = "absent") = final.ok
        /\ final.ok => doc.files = {}
        /\ ~final.ok =>
             \E i \in 1..Len(sinks["logs/error.log"]) :
                 sinks["logs/error.log"][i].msg = "Error cleaning up temp files"

\* The conversion failed, the message that reports the error was refused,
\* the exception leaves the handler, and the directory is gone.
C20_Witness ==
    /\ doc.pc = "raised"
    /\ doc.created
    /\ DocDid("process.kill")
    /\ DocDid("edit_message_text refused")
    /\ doc.dir = "absent"

\* The steps of the call that fetch the bytes of the file over Telethon.
TelethonSteps == {"GetFileRequest", "iter_messages", "_download_file_telethon"}

\* The position of the first step of the call that was the operation op,
\* 0 if there is none.
FirstStep(op) ==
    IF DocDid(op)
    THEN CHOOSE i \in 1..Len(doc.events) :
             /\ doc.events[i].op = op
             /\ \A j \in 1..(i - 1) : doc.events[j].op # op
    ELSE 0

\* Claim C21: a document of more than 50 MB is never downloaded through the
\* Bot API.  Without Telethon the only step of the call is the reply that
\* the file is too large: no processing message, no directory, no download
\* and no conversion.  With Telethon the download that follows the making
\* of the directory is the Telethon download.  A video of at most 50 MB, or
\* of unknown size, is downloaded through the Bot API and never through
\* Telethon: the request to the Bot API follows the making of the directory.
C21_LargeNeverThroughBotApi ==
    (DocDone /\ is_video_file(doc.document.file_name)) =>
        LET big == doc.document.file_size > MAX_FILE_SIZE
            made == FirstStep("mkdir")
        IN /\ big => ~DocDid("get_file")
           /\ (big /\ ~auth.USE_TELETHON) =>
                 /\ Len(doc.events) = 1
                 /\ doc.events[1].op \in {"reply_to", "reply_to refused"}
                 /\ doc.events[1].text = "the file is too large to process"
                 /\ ~doc.created
           /\ (big /\ auth.USE_TELETHON /\ made > 0) =>
                 /\ DocDid("_download_file_telethon")
                 /\ \A i \in (made + 1)..(FirstStep("_download_file_telethon") - 1) :
                        doc.events[i].op \in TelethonSteps
           /\ ~big =>
                 /\ \A i \in 1..Len(doc.events) : doc.events[i].op \notin TelethonSteps
                 /\ made > 0 =>
                       /\ Len(doc.events) > made
                       /\ doc.events[made + 1].op = "get_file"

\* A document of more than 50 MB arrived at a bot with Telethon, every
\* Telethon download failed, and the call ended without asking the Bot API.
C21_Witness ==
    /\ DocDone
    /\ doc.document.file_size > MAX_FILE_SIZE
    /\ auth.USE_TELETHON
    /\ \E i \in 1..Len(doc.events) :
          doc.events[i].op = "_download_file_telethon" /\ doc.events[i].raised
    /\ DocDid("iter_messages")
    /\ ~DocDid("get_file")

\* A document of more than 50 MB arrived at a bot without Telethon.
C21_RejectedWitness ==
    /\ DocDone
    /\ is_video_file(doc.document.file_name)
    /\ doc.document.file_size > MAX_FILE_SIZE
    /\ ~auth.USE_TELETHON
    /\ DocDid("reply_to")

\* A video of unknown size was downloaded through the Bot API.
C21_SmallWitness ==
    /\ DocDone
    /\ doc.document.file_size = 0
    /\ auth.USE_TELETHON
    /\ DocDid("get_file")
    /\ DocDid("send_video")

\* The texts handle_document puts into the processing message when it
\* reports an exception, and when the converted video is too large to send.
ErrorTexts ==
    {"the file exceeds the Bot API limit", "bad request to the Telegram API",
     "an error occurred while processing the video"}

TooLargeText == "converted, but too large to send"

\* The positions of the steps that edit the processing message, accepted by
\* Telegram or refused.
EditSteps ==
    {i \in 1..Len(doc.events) :
        doc.events[i].op \in {"edit_message_text", "edit_message_text refused"}}

\* Step i is a download, through the Bot API or through Telethon, that
\* handle_document saw complete / saw fail.
DownloadCompleted(i) ==
    /\ doc.events[i].op \in {"_download_file", "_download_file_telethon"}
    /\ ~doc.events[i].raised

DownloadFailed(i) ==
    /\ doc.events[i].op \in {"_download_file", "_download_file_telethon"}
    /\ doc.events[i].raised

\* Step i shows that the conversion failed: the process could not be
\* started, ran beyond the timeout, ended with a return code other than 0,
\* or left no output file.
ConversionFailed(i) ==
    \/ doc.events[i].op = "create_subprocess_exec" /\ ~doc.events[i].started
    \/ doc.events[i].op = "TimeoutError"
    \/ doc.events[i].op = "process.communicate" /\ doc.events[i].returncode # 0
    \/ doc.events[i].op = "exists" /\ ~doc.events[i].result

\* Step i found the converted video too large to send.
OutputTooLarge(i) ==
    doc.events[i].op = "stat" /\ doc.events[i].st_size > MAX_SEND_SIZE

\* The call ran into one of the failing cases.
FailingCase ==
    \E i \in 1..Len(doc.events) :
        DownloadFailed(i) \/ ConversionFailed(i) \/ OutputTooLarge(i)

\* Every sending of a video comes after, in this order, a download that
\* completed, a process that ended within the timeout with return code 0,
\* the finding of the output file, and the finding of a size of at most
\* MAX_SEND_SIZE, which is the size of what is sent.
SentInOrder ==
    \A s \in 1..Len(doc.events) :
        doc.events[s].op = "send_video" =>
            \E d, c, x, t \in 1..(s - 1) :
                /\ d < c /\ c < x /\ x < t
                /\ DownloadCompleted(d)
                /\ doc.events[c].op = "process.communicate"
                /\ doc.events[c].seconds <= CONVERSION_TIMEOUT
                /\ doc.events[c].returncode = 0
                /\ doc.events[x].op = "exists" /\ doc.events[x].result
                /\ doc.events[t].op = "stat"
                /\ doc.events[t].st_size <= MAX_SEND_SIZE
                /\ doc.events[s].size = doc.events[t].st_size
                /\ \A i \in 1..(s - 1) :
                      ~(DownloadFailed(i) \/ ConversionFailed(i) \/ OutputTooLarge(i))

\* After a timeout the process is killed, then awaited, and only then is
\* the processing message edited, to an error text.
TimeoutKilled ==
    \A k \in 1..Len(doc.events) :
        doc.events[k].op = "TimeoutError" =>
            /\ k + 2 <= Len(doc.events)
            /\ doc.events[k + 1].op = "process.kill"
            /\ doc.events[k + 2].op = "process.wait"
            /\ EditSteps # {}
            /\ \A j \in EditSteps : j > k + 2 /\ doc.events[j].text \in ErrorTexts

\* Claim C22, as stated: a converted video is sent only after, in this
\* order, the download completed, the transcoding process ended with return
\* code 0 within CONVERSION_TIMEOUT and produced the output file, and the
\* output was found to be of at most 50 MB; on a timeout the process is
\* killed and awaited before the error is reported; in every failing case
\* nothing is sent and the processing message is edited to an error text or
\* to the too-large text.
C22_SentAfterChecksElseEdited ==
    DocDone =>
        /\ SentInOrder
        /\ TimeoutKilled
        /\ FailingCase =>
              /\ ~DocDid("send_video")
              /\ \E i \in 1..Len(doc.events) :
                    /\ doc.events[i].op = "edit_message_text"
                    /\ doc.events[i].text \in ErrorTexts \cup {TooLargeText}

\* Claim C22, amended: the order of the steps before a sending and the
\* killing and awaiting of the process on a timeout are as stated; in every
\* failing case nothing is sent and handle_document asks Telegram to edit
\* the processing message to an error text or to the too-large text.  The
\* message is edited when Telegram accepts the request, and the call then
\* returns.  A refused too-large text is followed by one request with an
\* error text; when Telegram refuses the error text the message is left as
\* it was and the exception of the refusal leaves the handler.
C22_SentAfterChecksElseEditRequested ==
    DocDone =>
        /\ SentInOrder
        /\ TimeoutKilled
        /\ FailingCase =>
              /\ ~DocDid("send_video")
              /\ EditSteps # {}
              /\ LET final == CHOOSE i \in EditSteps : \A j \in EditSteps : j <= i
                 IN /\ \A i \in EditSteps \ {final} :
                          /\ doc.events[i].op = "edit_message_text refused"
                          /\ doc.events[i].text = TooLargeText
                    /\ Cardinality(EditSteps) <= 2
                    /\ Cardinality(EditSteps) = 2 =>
                          doc.events[final].text = "bad request to the Telegram API"
                    /\ doc.events[final].text \in ErrorTexts \cup {TooLargeText}
                    /\ doc.events[final].op = "edit_message_text" <=> doc.pc = "returned"
                    /\ doc.events[final].op = "edit_message_text refused" =>
                          /\ doc.events[final].text \in ErrorTexts
                          /\ doc.pc = "raised"
                          /\ doc.error.type = "ApiTelegramException"

\* A video was downloaded, converted within the timeout and sent.
C22_Witness ==
    /\ DocDone
    /\ \E d, s \in 1..Len(doc.events) :
          /\ d < s
          /\ DownloadCompleted(d)
          /\ doc.events[s].op = "send_video"
          /\ doc.events[s].size = MAX_SEND_SIZE

\* The conversion ran beyond the timeout, the process was killed and the
\* processing message was edited to an error text.
C22_TimeoutWitness ==
    /\ doc.pc = "returned"
    /\ DocDid("TimeoutError")
    /\ DocDid("process.wait")
    /\ DocDid("edit_message_text")

\* The converted video was too large, Telegram refused the too-large text
\* and accepted the error text that followed.
C22_SecondEditWitness ==
    /\ doc.pc = "returned"
    /\ \E i \in 1..Len(doc.events) : OutputTooLarge(i)
    /\ DocDid("edit_message_text refused")
    /\ DocDid("edit_message_text")

\* The download failed and Telegram refused the error text.
C22_RefusedWitness ==
    /\ doc.pc = "raised"
    /\ \E i \in 1..Len(doc.events) : DownloadFailed(i)
    /\ DocDid("edit_message_text refused")
    /\ ~DocDid("edit_message_text")

====
